---- MODULE Spec2Model ----
(***************************************************************************)
(* A model of the fceux-rs safe wrapper (src/src/lib.rs) over the raw      *)
(* libfceux binding (src/libfceux-sys/src/lib.rs), and of the example      *)
(* driver (src/examples/example.rs).                                       *)
(*                                                                         *)
(* The wrapper's own state is the INITIALIZED flag and the HOOK slot.  The *)
(* native core is only declared in the binding; what it does behind the    *)
(* declarations (memory, snapshots, triggers) is modelled after the        *)
(* specification text and is marked as such where it is defined.           *)
(***************************************************************************)
EXTENDS Integers, Sequences, FiniteSets, TLC

\* ------------------------------------------------------------------ bounds
MaxPathLen == 1      \* units of a ROM path
NAddr == 1           \* addresses of the CPU memory domain that are modelled
MaxSnaps == 1        \* snapshot buffers the native core can allocate
MaxHookCalls == 2    \* pre-execution triggers the core raises within one frame
MaxSound == 1        \* largest audio length the core reports for a frame

\* ------------------------------------------------------- program constants
XBUF_W == 256
XBUF_H == 240
AUDIO_FREQ == 44100

Threads == {1, 2}
MainThread == CHOOSE t \in Threads : \A u \in Threads : t <= u

Addr == 0 .. NAddr - 1
Byte == {0, 255}
Handles == 1 .. MaxSnaps
Memories == [Addr -> Byte]
ZeroMem == [a \in Addr |-> 0]

\* A native status is a c_int; 0 is failure, anything else is success.
StatusVals == {-1, 0, 1}
\* Sample values of the u8 and i32 arguments.
JoyVals == {0, 255}
FreqVals == {AUDIO_FREQ, 0}

\* A path unit: "a" is ordinary text, "nul" a zero byte, "bad" a unit that is
\* not valid UTF-8.
PathUnits == {"a", "nul", "bad"}
RECURSIVE SeqsUpTo(_, _)
SeqsUpTo(S, n) ==
    IF n = 0 THEN {<<>>}
    ELSE LET shorter == SeqsUpTo(S, n - 1)
         IN shorter \cup {Append(s, u) : s \in {x \in shorter : Len(x) = n - 1}, u \in S}
Paths == SeqsUpTo(PathUnits, MaxPathLen)
Roms == {"good", "bad"}

Range(s) == {s[i] : i \in 1 .. Len(s)}

NoArg == [path |-> <<>>, rom |-> "none", joy1 |-> 0, joy2 |-> 0, snap |-> 0, freq |-> 0]

VARIABLES
    INITIALIZED,   \* static mut INITIALIZED
    HOOK,          \* static HOOK: 0 is hook_dummy, t the closure lent by thread t's run_frame
    pc,            \* per thread: where it is inside a wrapper call
    op,            \* per thread: the wrapper call in progress or last completed
    arg,           \* per thread: the arguments of that call (given up when init or run_frame returns)
    res,           \* per thread: what the call returned
    status,        \* per thread: the status the call's native function returned, if any
    ncalls,        \* per thread: the native functions the call has invoked, in order
    okCreates,     \* init() calls that returned Ok
    coreLoaded,    \* native core: a ROM is loaded
    nativeHook,    \* native core: ffi_hook_before_exec is registered
    mem,           \* native core: CPU memory domain
    snaps,         \* native core: snapshot buffers by handle
    preSave,       \* per handle: the bytes mem_read gave at the last successful save
    hookCalls,     \* invocations of the user's closure in the frame in progress
    cbCalls,       \* invocations of f_video_sound in the frame in progress
    cbLens,        \* the lengths of the two slices handed to f_video_sound
    danglingCall,  \* Hook::call has dereferenced a closure whose owner had gone
    dpc            \* the example driver's position in main()

wrapperVars == <<INITIALIZED, HOOK>>
callVars == <<pc, op, arg, res, status, ncalls>>
nativeVars == <<coreLoaded, nativeHook, mem, snaps>>
frameVars == <<hookCalls, cbCalls, cbLens>>
vars == <<INITIALIZED, HOOK, pc, op, arg, res, status, ncalls, okCreates,
          coreLoaded, nativeHook, mem, snaps, preSave, hookCalls, cbCalls, cbLens,
          danglingCall, dpc>>

FreeSnap == [st |-> "free", data |-> ZeroMem]
NoSave == [valid |-> FALSE, data |-> ZeroMem]
NoFrame == <<0, 0>>

Init ==
    /\ INITIALIZED = FALSE
    /\ HOOK = 0
    /\ pc = [t \in Threads |-> "idle"]
    /\ op = [t \in Threads |-> "none"]
    /\ arg = [t \in Threads |-> NoArg]
    /\ res = [t \in Threads |-> "none"]
    /\ status = [t \in Threads |-> <<>>]
    /\ ncalls = [t \in Threads |-> <<>>]
    /\ okCreates = 0
    /\ coreLoaded = FALSE
    /\ nativeHook = FALSE
    /\ mem \in Memories
    /\ snaps = [h \in Handles |-> FreeSnap]
    /\ preSave = [h \in Handles |-> NoSave]
    /\ hookCalls = 0
    /\ cbCalls = 0
    /\ cbLens = NoFrame
    /\ danglingCall = FALSE
    /\ dpc = "start"

\* ----------------------------------------------------------- call plumbing
\* Thread t makes wrapper call o with arguments a; the call invokes the
\* native functions fns, gets the statuses sts back and returns r, in one step.
Call(t, o, a, fns, sts, r) ==
    /\ pc[t] = "idle"
    /\ op' = [op EXCEPT ![t] = o]
    /\ arg' = [arg EXCEPT ![t] = a]
    /\ ncalls' = [ncalls EXCEPT ![t] = fns]
    /\ status' = [status EXCEPT ![t] = sts]
    /\ res' = [res EXCEPT ![t] = r]
    /\ pc' = pc

\* A call that takes several steps goes from position p to position q.
Goto(t, p, q) ==
    /\ pc[t] = p
    /\ pc' = [pc EXCEPT ![t] = q]

\* Such a call returns r to its caller and gives its arguments up.
Return(t, p, r) ==
    /\ Goto(t, p, "idle")
    /\ res' = [res EXCEPT ![t] = r]
    /\ arg' = [arg EXCEPT ![t] = NoArg]

\* The status test with only the positive statuses taken as success.
StatusIsFailure_NonPositive(st) == st <= 0

\* if status == 0 { return Err(..) }
StatusIsFailure(st) == st = 0

\* -------------------------------------------------------------------- hook
\* The closure lent by thread t's run_frame lives as long as that call does.
ClosureAlive(t) == pc[t] \in {"rf_native", "rf_callback"}

\* Hook::call: dereferences whatever the slot holds.  hook_dummy does
\* nothing; a live closure runs; a closure whose owner has gone is a dangling
\* dereference.
HookCall ==
    IF HOOK = 0
    THEN UNCHANGED <<hookCalls, danglingCall>>
    ELSE IF ClosureAlive(HOOK)
    THEN /\ hookCalls' = hookCalls + 1
         /\ UNCHANGED danglingCall
    ELSE /\ danglingCall' = TRUE
         /\ UNCHANGED hookCalls

\* unsafe extern "C" fn ffi_hook_before_exec(_, addr) { HOOK.call(addr) }
ffi_hook_before_exec == HookCall

\* ------------------------------------------------------------ native core
\* The core is declared in libfceux-sys and lives outside these sources; its
\* effects are those the specification gives it.

\* What a native call leaves in CPU memory: m once a ROM is loaded; before
\* that the result is undefined.
NativeMem(m) == IF coreLoaded THEN {m} ELSE Memories

\* The core raises a pre-execution trigger (or not) while it runs power,
\* reset or a snapshot load; it reaches the wrapper only through the
\* function registered with fceux_hook_before_exec.
MaybeTrigger ==
    \E trig \in BOOLEAN :
        IF trig /\ nativeHook
        THEN ffi_hook_before_exec
        ELSE UNCHANGED <<hookCalls, danglingCall>>

\* The status fceux_init returns for a ROM, and what a call leaves behind.
fceux_init_status(rom) == IF rom = "good" THEN StatusVals \ {0} ELSE {0}

fceux_init(st) ==
    IF st # 0
    THEN /\ coreLoaded' = TRUE
         /\ mem' \in Memories
    ELSE UNCHANGED <<coreLoaded, mem>>

fceux_hook_before_exec == nativeHook' = TRUE

fceux_power == mem' \in Memories /\ MaybeTrigger

fceux_reset == mem' \in Memories /\ MaybeTrigger

fceux_mem_read(a) == mem[a]

fceux_mem_write(a, v) == mem' \in NativeMem([mem EXCEPT ![a] = v])

fceux_snapshot_create(h) == snaps' = [snaps EXCEPT ![h] = [st |-> "empty", data |-> ZeroMem]]

fceux_snapshot_destroy(h) == snaps' = [snaps EXCEPT ![h] = FreeSnap]

\* The statuses a save can return; a successful save overwrites the buffer.
fceux_snapshot_save_status(h) == StatusVals

fceux_snapshot_save(h, st) ==
    IF st # 0
    THEN \E m \in NativeMem(mem) : snaps' = [snaps EXCEPT ![h] = [st |-> "saved", data |-> m]]
    ELSE snaps' = snaps

\* A buffer never saved into is invalid; a successful load restores memory.
fceux_snapshot_load_status(h) ==
    IF coreLoaded /\ snaps[h].st # "saved" THEN {0} ELSE StatusVals

fceux_snapshot_load(h, st) ==
    IF st # 0
    THEN /\ mem' \in NativeMem(snaps[h].data)
         /\ MaybeTrigger
    ELSE UNCHANGED <<mem, hookCalls, danglingCall>>

fceux_sound_set_freq_status(f) == StatusVals

\* The audio lengths fceux_run_frame reports, and what the frame leaves in
\* memory.
fceux_run_frame_sizes == 0 .. MaxSound

fceux_run_frame == mem' \in Memories

\* ------------------------------------------------------------------ init()
to_str_ok(path) == \A i \in 1 .. Len(path) : path[i] # "bad"
CString_new_ok(path) == \A i \in 1 .. Len(path) : path[i] # "nul"

\* init() without the test of INITIALIZED.
InitCheck_NoTest(t, a) ==
    /\ pc[t] = "idle"
    /\ op' = [op EXCEPT ![t] = "init"]
    /\ ncalls' = [ncalls EXCEPT ![t] = <<>>]
    /\ status' = [status EXCEPT ![t] = <<>>]
    /\ res' = [res EXCEPT ![t] = "pending"]
    /\ arg' = [arg EXCEPT ![t] = a]
    /\ pc' = [pc EXCEPT ![t] = "init_path"]
    /\ UNCHANGED <<wrapperVars, okCreates, nativeVars, preSave, frameVars, danglingCall>>

\* init() that waits for the flag to clear instead of failing.
InitCheck_Blocking(t, a) ==
    /\ pc[t] = "idle"
    /\ op' = [op EXCEPT ![t] = "init"]
    /\ ncalls' = [ncalls EXCEPT ![t] = <<>>]
    /\ status' = [status EXCEPT ![t] = <<>>]
    /\ res' = [res EXCEPT ![t] = "pending"]
    /\ arg' = [arg EXCEPT ![t] = a]
    /\ pc' = [pc EXCEPT ![t] = IF INITIALIZED THEN "init_wait" ELSE "init_path"]
    /\ UNCHANGED <<wrapperVars, okCreates, nativeVars, preSave, frameVars, danglingCall>>

\* if INITIALIZED { return Err("already initialized") }
InitCheck(t, a) ==
    /\ pc[t] = "idle"
    /\ op' = [op EXCEPT ![t] = "init"]
    /\ ncalls' = [ncalls EXCEPT ![t] = <<>>]
    /\ status' = [status EXCEPT ![t] = <<>>]
    /\ IF INITIALIZED
       THEN /\ res' = [res EXCEPT ![t] = "already"]
            /\ arg' = [arg EXCEPT ![t] = NoArg]
            /\ pc' = pc
       ELSE /\ res' = [res EXCEPT ![t] = "pending"]
            /\ arg' = [arg EXCEPT ![t] = a]
            /\ pc' = [pc EXCEPT ![t] = "init_path"]
    /\ UNCHANGED <<wrapperVars, okCreates, nativeVars, preSave, frameVars, danglingCall>>

\* path_rom.as_os_str().to_str() and CString::new(), each with its `?`
InitPath(t) ==
    /\ IF ~to_str_ok(arg[t].path)
       THEN Return(t, "init_path", "to_str_failed")
       ELSE IF ~CString_new_ok(arg[t].path)
       THEN Return(t, "init_path", "cstring_failed")
       ELSE Goto(t, "init_path", "init_native") /\ UNCHANGED <<res, arg>>
    /\ UNCHANGED <<wrapperVars, op, status, ncalls, okCreates, nativeVars, preSave,
                   frameVars, danglingCall>>

\* init() without the early return on a zero status.
InitNative_NoReturn(t) ==
    /\ \E st \in fceux_init_status(arg[t].rom) :
        /\ status' = [status EXCEPT ![t] = <<st>>]
        /\ fceux_init(st)
    /\ Goto(t, "init_native", "init_hook")
    /\ ncalls' = [ncalls EXCEPT ![t] = Append(@, "fceux_init")]
    /\ UNCHANGED <<wrapperVars, op, arg, res, okCreates, nativeHook, snaps, preSave,
                   frameVars, danglingCall>>

\* let status = fceux_init(path); if status == 0 { return Err(..) }
InitNative(t) ==
    /\ \E st \in fceux_init_status(arg[t].rom) :
        /\ status' = [status EXCEPT ![t] = <<st>>]
        /\ IF StatusIsFailure(st)
           THEN Return(t, "init_native", "init_failed")
           ELSE Goto(t, "init_native", "init_hook") /\ UNCHANGED <<res, arg>>
        /\ fceux_init(st)
    /\ ncalls' = [ncalls EXCEPT ![t] = Append(@, "fceux_init")]
    /\ UNCHANGED <<wrapperVars, op, okCreates, nativeHook, snaps, preSave, frameVars,
                   danglingCall>>

\* fceux_hook_before_exec(Some(ffi_hook_before_exec), null)
InitHook(t) ==
    /\ Goto(t, "init_hook", "init_flag")
    /\ ncalls' = [ncalls EXCEPT ![t] = Append(@, "fceux_hook_before_exec")]
    /\ fceux_hook_before_exec
    /\ UNCHANGED <<wrapperVars, op, arg, res, status, okCreates, coreLoaded, mem, snaps,
                   preSave, frameVars, danglingCall>>

\* init() that returns Ok without setting the flag.
InitFlag_NotSet(t) ==
    /\ Return(t, "init_flag", "ok")
    /\ okCreates' = okCreates + 1
    /\ UNCHANGED <<wrapperVars, op, status, ncalls, nativeVars, preSave, frameVars,
                   danglingCall>>

\* INITIALIZED = true; Ok(())
InitFlag(t) ==
    /\ Return(t, "init_flag", "ok")
    /\ INITIALIZED' = TRUE
    /\ okCreates' = okCreates + 1
    /\ UNCHANGED <<HOOK, op, status, ncalls, nativeVars, preSave, frameVars, danglingCall>>

InitArgs == {[NoArg EXCEPT !.path = p, !.rom = r] : p \in Paths, r \in Roms}

\* ---------------------------------------------------------------- was_init
was_init(t) ==
    /\ Call(t, "was_init", NoArg, <<>>, <<>>, IF INITIALIZED THEN "true" ELSE "false")
    /\ UNCHANGED <<wrapperVars, okCreates, nativeVars, preSave, frameVars, danglingCall>>

\* ------------------------------------------------------------ power, reset
power(t) ==
    /\ Call(t, "power", NoArg, <<"fceux_power">>, <<>>, "ok")
    /\ fceux_power
    /\ UNCHANGED <<wrapperVars, okCreates, coreLoaded, nativeHook, snaps, preSave,
                   cbCalls, cbLens>>

reset(t) ==
    /\ Call(t, "reset", NoArg, <<"fceux_reset">>, <<>>, "ok")
    /\ fceux_reset
    /\ UNCHANGED <<wrapperVars, okCreates, coreLoaded, nativeHook, snaps, preSave,
                   cbCalls, cbLens>>

\* ------------------------------------------------------ mem_read, mem_write
mem_read(a) == fceux_mem_read(a)

mem_write(t, a, v) ==
    /\ Call(t, "mem_write", NoArg, <<"fceux_mem_write">>, <<>>, "ok")
    /\ fceux_mem_write(a, v)
    /\ UNCHANGED <<wrapperVars, okCreates, coreLoaded, nativeHook, snaps, preSave,
                   frameVars, danglingCall>>

\* --------------------------------------------------------------- snapshots
\* A Snapshot value exists for handle h: by ownership it can be passed to
\* load and save only between its creation and its drop.
Owned(h) == snaps[h].st # "free"

\* snapshot_create that refuses, before any native call, when no instance is live.
snapshot_create_Guarded(t) ==
    /\ IF INITIALIZED /\ \E h \in Handles : ~Owned(h)
       THEN \E h \in Handles :
               /\ ~Owned(h)
               /\ fceux_snapshot_create(h)
               /\ Call(t, "snapshot_create", [NoArg EXCEPT !.snap = h],
                       <<"fceux_snapshot_create">>, <<>>, "ok")
       ELSE /\ snaps' = snaps
            /\ Call(t, "snapshot_create", NoArg,
                    IF INITIALIZED THEN <<"fceux_snapshot_create">> ELSE <<>>, <<>>, "panic")
    /\ UNCHANGED <<wrapperVars, okCreates, coreLoaded, nativeHook, mem, preSave,
                   frameVars, danglingCall>>

\* snapshot_create -> Snapshot::new: the native allocation, a panic on null.
snapshot_create(t) ==
    /\ IF \E h \in Handles : ~Owned(h)
       THEN \E h \in Handles :
               /\ ~Owned(h)
               /\ fceux_snapshot_create(h)
               /\ Call(t, "snapshot_create", [NoArg EXCEPT !.snap = h],
                       <<"fceux_snapshot_create">>, <<>>, "ok")
       ELSE /\ snaps' = snaps
            /\ Call(t, "snapshot_create", NoArg, <<"fceux_snapshot_create">>, <<>>, "panic")
    /\ UNCHANGED <<wrapperVars, okCreates, coreLoaded, nativeHook, mem, preSave,
                   frameVars, danglingCall>>

\* impl Drop for Snapshot
snapshot_drop(t, h) ==
    /\ Owned(h)
    /\ Call(t, "drop", [NoArg EXCEPT !.snap = h], <<"fceux_snapshot_destroy">>, <<>>, "ok")
    /\ fceux_snapshot_destroy(h)
    /\ preSave' = [preSave EXCEPT ![h] = NoSave]
    /\ UNCHANGED <<wrapperVars, okCreates, coreLoaded, nativeHook, mem, frameVars,
                   danglingCall>>

snapshot_save(t, h) ==
    /\ Owned(h)
    /\ \E st \in fceux_snapshot_save_status(h) :
        /\ fceux_snapshot_save(h, st)
        /\ IF StatusIsFailure(st)
           THEN /\ Call(t, "snapshot_save", [NoArg EXCEPT !.snap = h],
                        <<"fceux_snapshot_save">>, <<st>>, "save_failed")
                /\ preSave' = preSave
           ELSE /\ Call(t, "snapshot_save", [NoArg EXCEPT !.snap = h],
                        <<"fceux_snapshot_save">>, <<st>>, "ok")
                /\ preSave' = [preSave EXCEPT ![h] =
                                 IF INITIALIZED
                                 THEN [valid |-> TRUE, data |-> [a \in Addr |-> mem_read(a)]]
                                 ELSE NoSave]
    /\ UNCHANGED <<wrapperVars, okCreates, coreLoaded, nativeHook, mem, frameVars,
                   danglingCall>>

\* snapshot_load that calls fceux_snapshot_save.
snapshot_load_CallsSave(t, h) ==
    /\ Owned(h)
    /\ \E st \in fceux_snapshot_save_status(h) :
        /\ fceux_snapshot_save(h, st)
        /\ Call(t, "snapshot_load", [NoArg EXCEPT !.snap = h], <<"fceux_snapshot_save">>,
                <<st>>, IF StatusIsFailure(st) THEN "load_failed" ELSE "ok")
    /\ UNCHANGED <<wrapperVars, okCreates, coreLoaded, nativeHook, mem, preSave, frameVars,
                   danglingCall>>

snapshot_load(t, h) ==
    /\ Owned(h)
    /\ \E st \in fceux_snapshot_load_status(h) :
        /\ fceux_snapshot_load(h, st)
        /\ Call(t, "snapshot_load", [NoArg EXCEPT !.snap = h], <<"fceux_snapshot_load">>,
                <<st>>, IF StatusIsFailure(st) THEN "load_failed" ELSE "ok")
    /\ UNCHANGED <<wrapperVars, okCreates, coreLoaded, nativeHook, snaps, preSave,
                   cbCalls, cbLens>>

\* ---------------------------------------------------------- sound_set_freq
sound_set_freq(t, f) ==
    /\ \E st \in fceux_sound_set_freq_status(f) :
        Call(t, "sound_set_freq", [NoArg EXCEPT !.freq = f], <<"fceux_sound_set_freq">>,
             <<st>>, IF StatusIsFailure(st) THEN "freq_failed" ELSE "ok")
    /\ UNCHANGED <<wrapperVars, okCreates, nativeVars, preSave, frameVars, danglingCall>>

\* --------------------------------------------------------------- run_frame
\* soundbuf_size as usize, for the non-negative lengths the core reports.
AsUsize(n) == n

\* Both slices built with the audio length.
FrameSlices_AudioLen(n) == <<AsUsize(n), AsUsize(n)>>

\* The two slices built from the pointers the core returned.
FrameSlices(n) == <<XBUF_W * XBUF_H, AsUsize(n)>>

\* run_frame that calls f_video_sound before it steps the core.
RunFrameBegin_CallbackFirst(t, j1, j2) ==
    /\ pc[t] = "idle"
    /\ pc' = [pc EXCEPT ![t] = "rf_native"]
    /\ op' = [op EXCEPT ![t] = "run_frame"]
    /\ arg' = [arg EXCEPT ![t] = [NoArg EXCEPT !.joy1 = j1, !.joy2 = j2]]
    /\ ncalls' = [ncalls EXCEPT ![t] = <<"fceux_run_frame">>]
    /\ status' = [status EXCEPT ![t] = <<>>]
    /\ res' = [res EXCEPT ![t] = "pending"]
    /\ HOOK' = t
    /\ hookCalls' = 0
    /\ cbCalls' = 1
    /\ cbLens' = FrameSlices_AudioLen(0)
    /\ preSave' = [h \in Handles |-> NoSave]
    /\ UNCHANGED <<INITIALIZED, okCreates, nativeVars, danglingCall>>

\* HOOK.replace(f_hook), then the call into fceux_run_frame begins.  A frame
\* step leaves no snapshot's saved bytes comparable with memory.
RunFrameBegin(t, j1, j2) ==
    /\ pc[t] = "idle"
    /\ pc' = [pc EXCEPT ![t] = "rf_native"]
    /\ op' = [op EXCEPT ![t] = "run_frame"]
    /\ arg' = [arg EXCEPT ![t] = [NoArg EXCEPT !.joy1 = j1, !.joy2 = j2]]
    /\ ncalls' = [ncalls EXCEPT ![t] = <<"fceux_run_frame">>]
    /\ status' = [status EXCEPT ![t] = <<>>]
    /\ res' = [res EXCEPT ![t] = "pending"]
    /\ HOOK' = t
    /\ hookCalls' = 0
    /\ cbCalls' = 0
    /\ cbLens' = NoFrame
    /\ preSave' = [h \in Handles |-> NoSave]
    /\ UNCHANGED <<INITIALIZED, okCreates, nativeVars, danglingCall>>

\* Inside fceux_run_frame the core reaches a pre-execution checkpoint.
NativeTrigger(t) ==
    /\ pc[t] = "rf_native"
    /\ nativeHook
    /\ hookCalls < MaxHookCalls
    /\ ffi_hook_before_exec
    /\ UNCHANGED <<wrapperVars, callVars, okCreates, nativeVars, preSave, cbCalls, cbLens>>

\* fceux_run_frame returns; the slices are built and f_video_sound is called.
RunFrameCallback(t) ==
    /\ Goto(t, "rf_native", "rf_callback")
    /\ fceux_run_frame
    /\ \E n \in fceux_run_frame_sizes : cbLens' = FrameSlices(n)
    /\ cbCalls' = cbCalls + 1
    /\ UNCHANGED <<wrapperVars, op, arg, res, status, ncalls, okCreates, coreLoaded,
                   nativeHook, snaps, preSave, hookCalls, danglingCall>>

\* f_video_sound returns; HOOK.replace(&hook_dummy); run_frame returns.
RunFrameEnd(t) ==
    /\ Return(t, "rf_callback", "ok")
    /\ HOOK' = 0
    /\ hookCalls' = 0
    /\ cbCalls' = 0
    /\ cbLens' = NoFrame
    /\ UNCHANGED <<INITIALIZED, op, status, ncalls, okCreates, nativeVars, preSave,
                   danglingCall>>

\* f_video_sound panics: run_frame is left by unwinding, and the statement
\* after the callback is never reached.
RunFrameUnwind(t) ==
    /\ Return(t, "rf_callback", "panic")
    /\ hookCalls' = 0
    /\ cbCalls' = 0
    /\ cbLens' = NoFrame
    /\ UNCHANGED <<wrapperVars, op, status, ncalls, okCreates, nativeVars, preSave,
                   danglingCall>>

\* ---------------------------------------------------------- specifications
NextInit(t) ==
    \/ \E a \in InitArgs : InitCheck(t, a)
    \/ InitPath(t)
    \/ InitNative(t)
    \/ InitHook(t)
    \/ InitFlag(t)

\* A step of a caller that is not the example driver.
Free(A) == A /\ UNCHANGED dpc

\* One caller, one call at a time, any call in any order.
Next ==
    \/ Free(\E a \in InitArgs : InitCheck(MainThread, a))
    \/ Free(InitPath(MainThread))
    \/ Free(InitNative(MainThread))
    \/ Free(InitHook(MainThread))
    \/ Free(InitFlag(MainThread))
    \/ Free(was_init(MainThread))
    \/ Free(power(MainThread))
    \/ Free(reset(MainThread))
    \/ Free(\E a \in Addr, v \in Byte : mem_write(MainThread, a, v))
    \/ Free(snapshot_create(MainThread))
    \/ Free(\E h \in Handles : snapshot_drop(MainThread, h))
    \/ Free(\E h \in Handles : snapshot_save(MainThread, h))
    \/ Free(\E h \in Handles : snapshot_load(MainThread, h))
    \/ Free(\E f \in FreqVals : sound_set_freq(MainThread, f))
    \/ Free(\E j1, j2 \in JoyVals : RunFrameBegin(MainThread, j1, j2))
    \/ Free(NativeTrigger(MainThread))
    \/ Free(RunFrameCallback(MainThread))
    \/ Free(RunFrameEnd(MainThread))
    \/ Free(RunFrameUnwind(MainThread))

Spec == Init /\ [][Next]_vars

\* Two callers whose init() calls interleave step by step.
NextConc ==
    \/ \E t \in Threads : Free(\E a \in InitArgs : InitCheck(t, a))
    \/ \E t \in Threads : Free(InitPath(t))
    \/ \E t \in Threads : Free(InitNative(t))
    \/ \E t \in Threads : Free(InitHook(t))
    \/ \E t \in Threads : Free(InitFlag(t))
    \/ \E t \in Threads : Free(was_init(t))

SpecConc == Init /\ [][NextConc]_vars

\* ------------------------------------------------------ the example driver
\* main() of examples/example.rs, on the main thread: every step is one of
\* the wrapper operations above, taken in the driver's program order.
M == MainThread

\* assert!(!fceux::was_init());
DriverAssertNotInit ==
    /\ dpc = "start"
    /\ was_init(M)
    /\ dpc' = IF res'[M] = "false" THEN "init" ELSE "done"

\* fceux::init(path_rom)?;
DriverInit ==
    /\ dpc = "init"
    /\ NextInit(M)
    /\ dpc' = IF pc'[M] # "idle" THEN "init"
              ELSE IF res'[M] = "ok" THEN "assert_init" ELSE "done"

\* assert!(fceux::was_init());
DriverAssertInit ==
    /\ dpc = "assert_init"
    /\ was_init(M)
    /\ dpc' = IF res'[M] = "true" THEN "freq" ELSE "done"

\* fceux::sound_set_freq(AUDIO_FREQ)?;
DriverSetFreq ==
    /\ dpc = "freq"
    /\ sound_set_freq(M, AUDIO_FREQ)
    /\ dpc' = IF res'[M] = "ok" THEN "mainloop" ELSE "done"

\* mainloop: let snap = fceux::snapshot_create();
DriverSnapshotCreate ==
    /\ dpc = "mainloop"
    /\ snapshot_create(M)
    /\ dpc' = IF res'[M] = "ok" THEN "loop" ELSE "done"

\* Cmd::Load => cmd_load(&snap)
DriverLoad == dpc = "loop" /\ (\E h \in Handles : snapshot_load(M, h)) /\ dpc' = dpc

\* Cmd::Save => cmd_save(&snap)
DriverSave == dpc = "loop" /\ (\E h \in Handles : snapshot_save(M, h)) /\ dpc' = dpc

\* Cmd::Power => cmd_power()
DriverPower == dpc = "loop" /\ power(M) /\ dpc' = dpc

\* Cmd::Reset => cmd_reset()
DriverReset == dpc = "loop" /\ reset(M) /\ dpc' = dpc

\* Cmd::Emulate(joy) => cmd_emulate(..): run_frame(joy, 0, .., &f_hook), whose
\* callback only converts the two buffers.
DriverEmulate ==
    /\ dpc = "loop"
    /\ \/ \E joy \in JoyVals : RunFrameBegin(M, joy, 0)
       \/ NativeTrigger(M)
       \/ RunFrameCallback(M)
       \/ RunFrameEnd(M)
    /\ dpc' = dpc

\* Cmd::Quit => break: mainloop returns, snap is dropped, main returns.
DriverQuit ==
    /\ dpc = "loop"
    /\ \E h \in Handles : snapshot_drop(M, h)
    /\ dpc' = "done"

NextExample ==
    \/ DriverAssertNotInit
    \/ DriverInit
    \/ DriverAssertInit
    \/ DriverSetFreq
    \/ DriverSnapshotCreate
    \/ DriverLoad
    \/ DriverSave
    \/ DriverPower
    \/ DriverReset
    \/ DriverEmulate
    \/ DriverQuit

SpecExample == Init /\ [][NextExample]_vars

\* ------------------------------------------------------------------ claims
\* The step in which thread t calls init().
InitCalled(t) ==
    /\ pc[t] = "idle"
    /\ op'[t] = "init"
    /\ <<pc[t], op[t], arg[t], res[t], status[t], ncalls[t]>>
         # <<pc'[t], op'[t], arg'[t], res'[t], status'[t], ncalls'[t]>>

\* The step in which thread t's init() returns after it passed the test.
InitReturned(t) ==
    /\ pc[t] \in {"init_path", "init_native", "init_hook", "init_flag"}
    /\ pc'[t] = "idle"

\* What init() returns for its arguments when no instance is live.
InitExpected(a) ==
    IF ~to_str_ok(a.path) THEN "to_str_failed"
    ELSE IF ~CString_new_ok(a.path) THEN "cstring_failed"
    ELSE IF a.rom # "good" THEN "init_failed"
    ELSE "ok"

\* C1: at most one instance is ever live, and once init() has succeeded every
\* further init() returns the already-initialized error at once, without
\* calling fceux_init or fceux_hook_before_exec and without changing the
\* flag, the hook slot or the native core.
C1_AtMostOneInstance ==
    [][/\ okCreates' <= 1
       /\ \A t \in Threads :
            (INITIALIZED /\ InitCalled(t)) =>
                /\ res'[t] = "already"
                /\ pc'[t] = "idle"
                /\ ncalls'[t] = <<>>
                /\ UNCHANGED <<INITIALIZED, HOOK, okCreates, coreLoaded, nativeHook>>]_vars

C1_Witness == INITIALIZED /\ op[M] = "init" /\ res[M] = "already" /\ okCreates = 1

\* C2 as stated: when the driver has left main() after a successful init(),
\* the instance has been torn down - the flag is clear again and the scope
\* exit has called fceux_quit.
C2_DestroyReleases ==
    (dpc = "done" /\ okCreates > 0) =>
        (~INITIALIZED /\ "fceux_quit" \in Range(ncalls[M]))

\* C2 amended: there is no teardown.  Once init() has succeeded the flag
\* stays set up to and including the driver's exit from main(), and no
\* wrapper operation, the drop of the snapshot included, calls fceux_quit.
C2_NoTeardown ==
    /\ okCreates > 0 => INITIALIZED
    /\ \A t \in Threads : "fceux_quit" \notin Range(ncalls[t])

C2_Witness == dpc = "done" /\ okCreates = 1 /\ INITIALIZED /\ op[M] = "drop"

\* C3 as stated: with two callers whose init() calls interleave, at most
\* one of them gets a non-zero status from fceux_init and at most one
\* returns Ok.
C3_OneWinner ==
    okCreates + Cardinality({t \in Threads : pc[t] \in {"init_hook", "init_flag"}}) <= 1

\* C3 amended: the guard is a plain test of the flag that never waits: an
\* init() called after another init() has returned Ok fails in that same
\* step with the already-initialized error and no native call, and an init()
\* called before that goes straight on to convert its path.
C3_TestNeverWaits ==
    [][\A t \in Threads :
         InitCalled(t) =>
            IF okCreates > 0
            THEN res'[t] = "already" /\ pc'[t] = "idle" /\ ncalls'[t] = <<>>
            ELSE pc'[t] = "init_path"]_vars

C3_Witness ==
    \E t, u \in Threads :
        /\ t # u
        /\ op[t] = "init" /\ res[t] = "ok"
        /\ op[u] = "init" /\ res[u] = "already"

\* C4: an init() that passed the test returns what its arguments call for -
\* an error for a path that does not convert or a ROM the core rejects, Ok
\* otherwise, whatever failed before; a failing init() leaves the flag clear,
\* the hook unregistered and the core, the slot and the snapshots as they
\* were; and was_init() is true exactly when some init() has returned Ok.
C4_FailedCreate ==
    [][/\ \A t \in Threads :
            InitReturned(t) =>
                /\ res'[t] = InitExpected(arg[t])
                /\ res'[t] # "ok" =>
                      /\ ~INITIALIZED' /\ ~nativeHook' /\ ~coreLoaded'
                      /\ UNCHANGED <<INITIALIZED, HOOK, okCreates, nativeVars>>
       /\ INITIALIZED' <=> okCreates' > 0
       /\ \A t \in Threads :
            op'[t] = "was_init" => (res'[t] = "true" <=> okCreates' > 0)]_vars

C4_Witness ==
    /\ op[M] = "init" /\ res[M] = "init_failed" /\ status[M] = <<0>>
    /\ ~INITIALIZED /\ ~nativeHook /\ okCreates = 0

\* C5: within a run_frame call the user's hook runs only while
\* f_video_sound has not been called yet, and when run_frame is left
\* f_video_sound has been called exactly once.
C5_HookBeforeCallback ==
    [][/\ hookCalls' > hookCalls => (cbCalls = 0 /\ cbCalls' = 0)
       /\ \A t \in Threads :
            (ClosureAlive(t) /\ pc'[t] = "idle") => cbCalls = 1
       /\ cbCalls' <= 1]_vars

C5_Witness == pc[M] = "rf_callback" /\ hookCalls = MaxHookCalls /\ cbCalls = 1

\* C6: on a live instance, every run_frame(0, 0, ..) hands f_video_sound a
\* pixel slice of 256 * 240 entries, exactly once, whatever the audio
\* length; and run_frame itself never returns an error.
C6_PixelBuffer ==
    \A t \in Threads :
        /\ (INITIALIZED /\ pc[t] = "rf_callback" /\ arg[t].joy1 = 0 /\ arg[t].joy2 = 0) =>
              (cbCalls = 1 /\ cbLens[1] = 256 * 240 /\ cbLens[2] \in 0 .. MaxSound)
        /\ (op[t] = "run_frame" /\ pc[t] = "idle") => res[t] \in {"ok", "panic"}

C6_Witness ==
    /\ INITIALIZED /\ pc[M] = "rf_callback" /\ arg[M].joy1 = 0 /\ arg[M].joy2 = 0
    /\ cbLens = <<256 * 240, MaxSound>>

\* C7: after a successful snapshot_load of a snapshot whose last successful
\* snapshot_save was made on a live instance with no frame step since,
\* mem_read gives at every address the byte it gave just before that save.
C7_RoundTrip ==
    \A t \in Threads : \A h \in Handles :
        (/\ op[t] = "snapshot_load" /\ arg[t].snap = h /\ res[t] = "ok"
         /\ preSave[h].valid) =>
            \A a \in Addr : mem_read(a) = preSave[h].data[a]

C7_Witness ==
    \E h \in Handles :
        /\ op[M] = "snapshot_load" /\ arg[M].snap = h /\ res[M] = "ok"
        /\ preSave[h].valid
        /\ \E a \in Addr : mem_read(a) # 0

\* C8 as stated: the native snapshot allocation is reached only while an
\* instance is live.
C8_OnlyWhileLive ==
    \A t \in Threads :
        (op[t] = "snapshot_create" /\ "fceux_snapshot_create" \in Range(ncalls[t])) =>
            INITIALIZED

\* C8 amended: snapshot_create makes no test of the flag: every call reaches
\* the native allocation, exactly once, live instance or not, and returns
\* the snapshot it was given unless the core had none to give.
C8_AlwaysAllocates ==
    \A t \in Threads :
        op[t] = "snapshot_create" =>
            /\ ncalls[t] = <<"fceux_snapshot_create">>
            /\ res[t] \in {"ok", "panic"}
            /\ res[t] = "ok" => Owned(arg[t].snap)

C8_Witness == op[M] = "snapshot_create" /\ res[M] = "ok" /\ ~INITIALIZED /\ okCreates = 0

\* The native function each status-returning operation calls, and its error.
NativeOf(o) ==
    IF o = "snapshot_load" THEN "fceux_snapshot_load"
    ELSE IF o = "snapshot_save" THEN "fceux_snapshot_save"
    ELSE "fceux_sound_set_freq"

ErrorOf(o) ==
    IF o = "snapshot_load" THEN "load_failed"
    ELSE IF o = "snapshot_save" THEN "save_failed"
    ELSE "freq_failed"

StatusOps == {"snapshot_load", "snapshot_save", "sound_set_freq"}

\* C9: snapshot_load, snapshot_save and sound_set_freq each make exactly one
\* native call, return their error exactly when its status is 0 and Ok for
\* every other status, and change neither the flag, nor the hook slot, nor
\* which snapshot handles exist.
C9_StatusMapping ==
    [][\A t \in Threads :
         op'[t] \in StatusOps =>
            /\ ncalls'[t] = <<NativeOf(op'[t])>>
            /\ Len(status'[t]) = 1
            /\ res'[t] = ErrorOf(op'[t]) <=> status'[t][1] = 0
            /\ res'[t] = "ok" <=> status'[t][1] # 0
            /\ UNCHANGED <<INITIALIZED, HOOK>>
            /\ \A h \in Handles : Owned(h)' <=> Owned(h)]_vars

C9_Witness ==
    /\ op[M] = "snapshot_load" /\ res[M] = "ok" /\ status[M] = <<-1>>
    /\ \E h \in Handles : snaps[h].st = "saved"

\* C10: whenever no run_frame call is in progress the hook slot holds
\* hook_dummy, and Hook::call never dereferences a closure whose owner has
\* gone.
C10_HookSlot ==
    /\ (\A t \in Threads : ~ClosureAlive(t)) => HOOK = 0
    /\ ~danglingCall
====
